---- MODULE Spec2Model ----
(***************************************************************************)
(* The form controller of src/pretty_tui.rs (struct Tui): the three field  *)
(* values, the focused widget, the input mode and the cursor offset, the   *)
(* key dispatch of Tui::main, and the two handlers handle_normal and      *)
(* handle_editing.  A String is a sequence of chars; its len(), insert(),  *)
(* remove() and pop() work on UTF-8 byte offsets as in Rust, so a char has *)
(* a byte width and an offset may or may not lie on a char boundary.       *)
(***************************************************************************)
EXTENDS Integers, Sequences, FiniteSets, TLC

VARIABLES account, password, mileage_percent, selected, input_mode, cursorpos,
          status, ret, phase, typed1, typed2, hcount,
          logger, terminal, build, input

driver == <<phase, typed1, typed2, hcount>>
\* the log source, the terminal (its height and the log panel of the last
\* frame) and the build profile (debug or release)
screen == <<logger, terminal, build>>
vars == <<account, password, mileage_percent, selected, input_mode, cursorpos,
          status, ret, phase, typed1, typed2, hcount,
          logger, terminal, build, input>>

----------------------------------------------------------------------------
(* Bounds of the model. *)

\* most bytes the two text buffers hold together: the user of Spec types a
\* char into a text field only if it still fits
MaxLen == 2
\* longest account / password typed by the scripted happy-path user
MaxS1 == 3
MaxS2 == 2
\* most lines the log source holds, and the tallest log panel
MaxLog == 7
MaxHeight == 6
\* most events welcome() discards before the user presses a key
MaxDiscard == 3

(* Program constants. *)
MaxMileage == 100
U16 == 65536

----------------------------------------------------------------------------
(* Chars and Strings. *)

\* chars the model's user can press: the command letters of both handlers, a
\* letter that is no command, and one char whose UTF-8 encoding has 2 bytes
\* (U+00E9, e with acute accent: bytes C3 A9)
WideChars == {"U+00E9"}
Chars == {"q", "j", "k", "i", "a", "h", "l", "x"} \cup WideChars
\* chars the user of Spec types into a text field
TextChars == {"q", "h"} \cup WideChars

\* char::len_utf8
len_utf8(c) == IF c \in WideChars THEN 2 ELSE 1

\* String::len: the length in bytes
RECURSIVE len(_)
len(s) == IF s = <<>> THEN 0 ELSE len_utf8(Head(s)) + len(Tail(s))

\* str::is_char_boundary: 0, len, or the byte offset at which a char starts
is_char_boundary(s, idx) == \E n \in 0..Len(s) : len(SubSeq(s, 1, n)) = idx

\* the number of chars that lie before byte offset idx (a char boundary)
CharsBefore(s, idx) == CHOOSE n \in 0..Len(s) : len(SubSeq(s, 1, n)) = idx

\* String::insert panics unless idx is a char boundary
insert_ok(s, idx) == is_char_boundary(s, idx)
insert(s, idx, c) ==
    LET n == CharsBefore(s, idx)
    IN  SubSeq(s, 1, n) \o <<c>> \o SubSeq(s, n + 1, Len(s))

\* String::remove panics if idx >= len or idx is no char boundary
remove_ok(s, idx) == idx < len(s) /\ is_char_boundary(s, idx)
remove(s, idx) ==
    LET n == CharsBefore(s, idx)
    IN  SubSeq(s, 1, n) \o SubSeq(s, n + 2, Len(s))

\* String::pop: drops the last char, does nothing on the empty string
pop(s) == IF s = <<>> THEN s ELSE SubSeq(s, 1, Len(s) - 1)

\* `as u16`
AsU16(n) == n % U16

----------------------------------------------------------------------------
(* Key codes. *)

NoChar == "-"
Key(code) == [code |-> code, ch |-> NoChar]
CharKey(c) == [code |-> "Char", ch |-> c]

SpecialKeys == {Key("Esc"), Key("Enter"), Key("Tab"), Key("Backspace"),
                Key("Left"), Key("Right"), Key("Up"), Key("Down"), Key("Delete")}
Keys == SpecialKeys \cup {CharKey(c) : c \in Chars}

----------------------------------------------------------------------------
(* The Tui value and what a handler hands back. *)

Self == [account |-> account, password |-> password,
         mileage_percent |-> mileage_percent, selected |-> selected,
         input_mode |-> input_mode, cursorpos |-> cursorpos]

\* Tui::new
New == [account |-> <<>>, password |-> <<>>, mileage_percent |-> MaxMileage,
        selected |-> "Account", input_mode |-> "Normal", cursorpos |-> 0]

NoVal == <<>>
None(s) == [st |-> s, ret |-> "None", val |-> NoVal]
Some(s, v) == [st |-> s, ret |-> "Some", val |-> v]
Panic(s) == [st |-> s, ret |-> "panic", val |-> NoVal]

\* select with Down wrapping from Mileage round to Account
select_wraps(s, direction) ==
    CASE s.selected = "Account" ->
            IF direction = "Down" THEN [s EXCEPT !.selected = "Password"] ELSE s
      [] s.selected = "Password" ->
            IF direction = "Up" THEN [s EXCEPT !.selected = "Account"]
            ELSE IF direction = "Down" THEN [s EXCEPT !.selected = "Mileage"]
            ELSE s
      [] s.selected = "Mileage" ->
            IF direction = "Up" THEN [s EXCEPT !.selected = "Password"]
            ELSE IF direction = "Down" THEN [s EXCEPT !.selected = "Account"]
            ELSE s

\* Tui::select
select(s, direction) ==
    CASE s.selected = "Account" ->
            IF direction = "Down" THEN [s EXCEPT !.selected = "Password"] ELSE s
      [] s.selected = "Password" ->
            IF direction = "Up" THEN [s EXCEPT !.selected = "Account"]
            ELSE IF direction = "Down" THEN [s EXCEPT !.selected = "Mileage"]
            ELSE s
      [] s.selected = "Mileage" ->
            IF direction = "Up" THEN [s EXCEPT !.selected = "Password"] ELSE s

\* handle_normal, the arm Enter | Char('i') | Char('a')
normal_Edit(s) ==
    None([s EXCEPT !.input_mode = "Editing",
                   !.cursorpos = AsU16(CASE s.selected = "Account" -> len(s.account)
                                         [] s.selected = "Password" -> len(s.password)
                                         [] OTHER -> 0)])

\* Tui::handle_normal: Some(()) breaks the loop, None continues
handle_normal(s, key) ==
    CASE key = Key("Esc") -> Some(s, NoVal)
      [] key = Key("Up") -> None(select(s, "Up"))
      [] key = Key("Down") -> None(select(s, "Down"))
      [] key = CharKey("q") -> Some(s, NoVal)
      [] key = CharKey("j") -> None(select(s, "Down"))
      [] key = CharKey("k") -> None(select(s, "Up"))
      [] key \in {Key("Enter"), CharKey("i"), CharKey("a")} -> normal_Edit(s)
      [] OTHER -> None(s)

\* the arm Esc also sending the cursor back to 0
editing_Esc_resets(s) == None([s EXCEPT !.input_mode = "Normal", !.cursorpos = 0])

\* handle_editing, the arm Esc
editing_Esc(s) == None([s EXCEPT !.input_mode = "Normal"])

\* the arm Enter leaving the focus on Password
editing_Enter_no_advance(s) ==
    CASE s.selected = "Account" ->
            None([select(s, "Down") EXCEPT !.cursorpos = AsU16(len(s.password))])
      [] s.selected = "Password" -> None(s)
      [] s.selected = "Mileage" ->
            Some([s EXCEPT !.input_mode = "Normal"],
                 <<s.account, s.password, s.mileage_percent>>)

\* handle_editing, the arm Enter
editing_Enter(s) ==
    CASE s.selected = "Account" ->
            None([select(s, "Down") EXCEPT !.cursorpos = AsU16(len(s.password))])
      [] s.selected = "Password" -> None(select(s, "Down"))
      [] s.selected = "Mileage" ->
            Some([s EXCEPT !.input_mode = "Normal"],
                 <<s.account, s.password, s.mileage_percent>>)

\* the arm Tab confirming on Mileage as Enter does
editing_Tab_confirms(s) ==
    CASE s.selected = "Account" ->
            None([select(s, "Down") EXCEPT !.cursorpos = AsU16(len(s.password))])
      [] s.selected = "Password" -> None(select(s, "Down"))
      [] OTHER ->
            Some([s EXCEPT !.input_mode = "Normal"],
                 <<s.account, s.password, s.mileage_percent>>)

\* handle_editing, the arm Tab
editing_Tab(s) ==
    CASE s.selected = "Account" ->
            None([select(s, "Down") EXCEPT !.cursorpos = AsU16(len(s.password))])
      [] s.selected = "Password" -> None(select(s, "Down"))
      [] OTHER -> None(s)

\* the arm Backspace with Password's branch taken for every widget but Account
editing_Backspace_any(s) ==
    CASE s.selected = "Account" ->
            IF s.cursorpos > 0
            THEN LET c == s.cursorpos - 1
                     t == [s EXCEPT !.cursorpos = c]
                 IN  IF remove_ok(s.account, c)
                     THEN None([t EXCEPT !.account = remove(s.account, c)])
                     ELSE Panic(t)
            ELSE None(s)
      [] OTHER ->
            IF s.cursorpos > 0
            THEN None([s EXCEPT !.cursorpos = s.cursorpos - 1,
                                !.password = pop(s.password)])
            ELSE None(s)

\* handle_editing, the arm Backspace: Account removes the char at the new
\* cursor, Password pops the last char
editing_Backspace(s) ==
    CASE s.selected = "Account" ->
            IF s.cursorpos > 0
            THEN LET c == s.cursorpos - 1
                     t == [s EXCEPT !.cursorpos = c]
                 IN  IF remove_ok(s.account, c)
                     THEN None([t EXCEPT !.account = remove(s.account, c)])
                     ELSE Panic(t)
            ELSE None(s)
      [] s.selected = "Password" ->
            IF s.cursorpos > 0
            THEN None([s EXCEPT !.cursorpos = s.cursorpos - 1,
                                !.password = pop(s.password)])
            ELSE None(s)
      [] OTHER -> None(s)

\* the arm Char(c) without the cursor advancing behind the inserted char
editing_Char_stuck(s, c) ==
    CASE s.selected = "Account" ->
            IF insert_ok(s.account, s.cursorpos)
            THEN None([s EXCEPT !.account = insert(s.account, s.cursorpos, c)])
            ELSE Panic(s)
      [] s.selected = "Password" ->
            IF insert_ok(s.password, s.cursorpos)
            THEN None([s EXCEPT !.password = insert(s.password, s.cursorpos, c)])
            ELSE Panic(s)
      [] s.selected = "Mileage" ->
            CASE c = "h" ->
                    IF s.mileage_percent > 0
                    THEN None([s EXCEPT !.mileage_percent = s.mileage_percent - 1])
                    ELSE None(s)
              [] c = "l" ->
                    IF s.mileage_percent < MaxMileage
                    THEN None([s EXCEPT !.mileage_percent = s.mileage_percent + 1])
                    ELSE None(s)
              [] OTHER -> None(s)

\* handle_editing, the arm Char(c)
editing_Char(s, c) ==
    CASE s.selected = "Account" ->
            IF insert_ok(s.account, s.cursorpos)
            THEN None([s EXCEPT !.account = insert(s.account, s.cursorpos, c),
                                !.cursorpos = AsU16(s.cursorpos + 1)])
            ELSE Panic(s)
      [] s.selected = "Password" ->
            IF insert_ok(s.password, s.cursorpos)
            THEN None([s EXCEPT !.password = insert(s.password, s.cursorpos, c),
                                !.cursorpos = AsU16(s.cursorpos + 1)])
            ELSE Panic(s)
      [] s.selected = "Mileage" ->
            CASE c = "h" ->
                    IF s.mileage_percent > 0
                    THEN None([s EXCEPT !.mileage_percent = s.mileage_percent - 1])
                    ELSE None(s)
              [] c = "l" ->
                    IF s.mileage_percent < MaxMileage
                    THEN None([s EXCEPT !.mileage_percent = s.mileage_percent + 1])
                    ELSE None(s)
              [] OTHER -> None(s)

\* the arm Left decrementing the u16 without the test for 0
editing_Left_wraps(s) ==
    IF s.selected = "Mileage"
    THEN None([s EXCEPT !.mileage_percent = AsU16(s.mileage_percent - 1)])
    ELSE IF s.cursorpos > 0
         THEN None([s EXCEPT !.cursorpos = s.cursorpos - 1])
         ELSE None(s)

\* handle_editing, the arm Left
editing_Left(s) ==
    IF s.selected = "Mileage"
    THEN IF s.mileage_percent > 0
         THEN None([s EXCEPT !.mileage_percent = s.mileage_percent - 1])
         ELSE None(s)
    ELSE IF s.cursorpos > 0
         THEN None([s EXCEPT !.cursorpos = s.cursorpos - 1])
         ELSE None(s)

\* the arm Right moving the cursor only, with no branch for Mileage
editing_Right_cursor_only(s) ==
    IF s.selected = "Mileage"
    THEN None(s)
    ELSE IF s.cursorpos < AsU16(CASE s.selected = "Account" -> len(s.account)
                                  [] s.selected = "Password" -> len(s.password)
                                  [] OTHER -> 0)
         THEN None([s EXCEPT !.cursorpos = AsU16(s.cursorpos + 1)])
         ELSE None(s)

\* handle_editing, the arm Right
editing_Right(s) ==
    IF s.selected = "Mileage"
    THEN IF s.mileage_percent < MaxMileage
         THEN None([s EXCEPT !.mileage_percent = s.mileage_percent + 1])
         ELSE None(s)
    ELSE IF s.cursorpos < AsU16(CASE s.selected = "Account" -> len(s.account)
                                  [] s.selected = "Password" -> len(s.password)
                                  [] OTHER -> 0)
         THEN None([s EXCEPT !.cursorpos = AsU16(s.cursorpos + 1)])
         ELSE None(s)

\* Tui::handle_editing: Some(triple) breaks the loop and returns, None continues
handle_editing(s, key) ==
    CASE key = Key("Esc") -> editing_Esc(s)
      [] key = Key("Enter") -> editing_Enter(s)
      [] key = Key("Tab") -> editing_Tab(s)
      [] key = Key("Backspace") -> editing_Backspace(s)
      [] key.code = "Char" -> editing_Char(s, key.ch)
      [] key = Key("Left") -> editing_Left(s)
      [] key = Key("Right") -> editing_Right(s)
      [] OTHER -> None(s)

\* the dispatch of Tui::main on a key press: the handler of the current mode
Dispatch(s, key) ==
    IF s.input_mode = "Normal" THEN handle_normal(s, key) ELSE handle_editing(s, key)

\* what Tui::main does with the handler's answer: continue the loop, return
\* Ok(None) from handle_normal's Some(()), return Ok(Some(res)) from
\* handle_editing's Some(res); a panic unwinds out of main
MainStatus(s, r) ==
    CASE r.ret = "None" -> "running"
      [] r.ret = "panic" -> "panicked"
      [] r.ret = "Some" /\ s.input_mode = "Normal" -> "cancelled"
      [] r.ret = "Some" /\ s.input_mode = "Editing" -> "result"

\* the loop of Tui::main fed with presses of Enter only, n of them at most,
\* from the form s: how the run stands after them, the presses it read and
\* the value it returned
RECURSIVE main_Enter(_, _)
main_Enter(s, n) ==
    IF n = 0
    THEN [status |-> "running", presses |-> 0, val |-> NoVal]
    ELSE LET r == Dispatch(s, Key("Enter"))
             after == MainStatus(s, r)
         IN  IF after = "running"
             THEN [main_Enter(r.st, n - 1) EXCEPT !.presses = @ + 1]
             ELSE [status |-> after, presses |-> 1, val |-> r.val]

\* Tui::ui_main, the text of the password panel: vec![Span::raw("*"); n] with
\* n = self.password.len()
password_panel(s) == [n \in 1..len(s.password) |-> "*"]

\* Tui::ui_main, the lines handed to the log Paragraph, for the log `text`
\* and a log panel chunks[2] of `height` rows.  ok is FALSE where building
\* them panics.  The code tests len > height as usize - 2 and slices from
\* len - height as usize - 2, which Rust reads as (len - height) - 2.
\* A usize difference below 0 panics in a debug build and wraps in a release
\* build to a value above every Vec length: the wrapped bound makes the test
\* false, the wrapped slice start is out of range and the slice panics.
log_panel(text, height, profile) ==
    LET n == Len(text)
    IN  IF height < 2
        THEN IF profile = "debug"
             THEN [ok |-> FALSE, text |-> <<>>]
             ELSE [ok |-> TRUE, text |-> text]
        ELSE IF n > height - 2
             THEN IF n - height - 2 < 0
                  THEN [ok |-> FALSE, text |-> <<>>]
                  ELSE [ok |-> TRUE, text |-> SubSeq(text, n - height - 2 + 1, n)]
             ELSE [ok |-> TRUE, text |-> text]

----------------------------------------------------------------------------
(* The state machine. *)

InitTui ==
    /\ account = New.account
    /\ password = New.password
    /\ mileage_percent = New.mileage_percent
    /\ selected = New.selected
    /\ input_mode = New.input_mode
    /\ cursorpos = New.cursorpos
    /\ status = "running"
    /\ ret = NoVal
    /\ typed1 = <<>>
    /\ typed2 = <<>>
    /\ hcount = 0

\* an empty log on a terminal whose log panel has MaxHeight rows
InitScreen ==
    /\ logger = <<>>
    /\ terminal = [height |-> MaxHeight, log |-> <<>>]
    /\ build = "release"

\* main() entered, no event read yet
InitInput == input = [stage |-> "main", kind |-> "none", woke |-> "none",
                      discarded |-> 0, presses |-> 0, shadow |-> New]

Init == InitTui /\ InitScreen /\ InitInput /\ phase = "free"

\* one iteration of the loop of Tui::main that reads a press of `key`
KeyPress(key) ==
    /\ status = "running"
    /\ \E r \in {Dispatch(Self, key)} :
           /\ account' = r.st.account
           /\ password' = r.st.password
           /\ mileage_percent' = r.st.mileage_percent
           /\ selected' = r.st.selected
           /\ input_mode' = r.st.input_mode
           /\ cursorpos' = r.st.cursorpos
           /\ status' = MainStatus(Self, r)
           /\ ret' = r.val
    /\ UNCHANGED screen

\* the user of Spec types only TextChars into the text fields, and only
\* while the two buffers together stay within MaxLen bytes
Typable(key) ==
    (key.code = "Char" /\ input_mode = "Editing" /\ selected # "Mileage")
        => /\ key.ch \in TextChars
           /\ len(account) + len(password) + len_utf8(key.ch) <= MaxLen

MainNormal ==
    /\ input_mode = "Normal"
    /\ \E key \in Keys : KeyPress(key)
    /\ UNCHANGED <<driver, input>>

MainEditing ==
    /\ input_mode = "Editing"
    /\ \E key \in Keys : Typable(key) /\ KeyPress(key)
    /\ UNCHANGED <<driver, input>>

Next == MainNormal \/ MainEditing

Spec == Init /\ [][Next]_vars

----------------------------------------------------------------------------
(* The scripted user of the happy path: i, the chars of an account, Tab,   *)
(* the chars of a password, Enter, h some number of times, Enter.  typed1, *)
(* typed2 and hcount record what this user has pressed so far.             *)

AccountChars == {"a", "b", "c"}
PasswordChars == {"x", "y"}

InitHappy == InitTui /\ InitScreen /\ InitInput /\ phase = "start"

HappyI ==
    /\ phase = "start"
    /\ KeyPress(CharKey("i"))
    /\ phase' = "account"
    /\ UNCHANGED <<typed1, typed2, hcount, input>>

HappyAccount ==
    /\ phase = "account"
    /\ Len(typed1) < MaxS1
    /\ \E c \in AccountChars : KeyPress(CharKey(c)) /\ typed1' = Append(typed1, c)
    /\ UNCHANGED <<phase, typed2, hcount, input>>

HappyTab ==
    /\ phase = "account"
    /\ KeyPress(Key("Tab"))
    /\ phase' = "password"
    /\ UNCHANGED <<typed1, typed2, hcount, input>>

HappyPassword ==
    /\ phase = "password"
    /\ Len(typed2) < MaxS2
    /\ \E c \in PasswordChars : KeyPress(CharKey(c)) /\ typed2' = Append(typed2, c)
    /\ UNCHANGED <<phase, typed1, hcount, input>>

HappyEnter ==
    /\ phase = "password"
    /\ KeyPress(Key("Enter"))
    /\ phase' = "mileage"
    /\ UNCHANGED <<typed1, typed2, hcount, input>>

HappyH ==
    /\ phase = "mileage"
    /\ hcount < MaxMileage
    /\ KeyPress(CharKey("h"))
    /\ hcount' = hcount + 1
    /\ UNCHANGED <<phase, typed1, typed2, input>>

HappyConfirm ==
    /\ phase = "mileage"
    /\ KeyPress(Key("Enter"))
    /\ phase' = "done"
    /\ UNCHANGED <<typed1, typed2, hcount, input>>

NextHappy ==
    \/ HappyI
    \/ HappyAccount
    \/ HappyTab
    \/ HappyPassword
    \/ HappyEnter
    \/ HappyH
    \/ HappyConfirm

SpecHappy == InitHappy /\ [][NextHappy]_vars

----------------------------------------------------------------------------
(* The log panel: the log source appends lines (line k is the number k),   *)
(* the terminal is resized, and Tui::main draws a frame.                   *)

InitLog ==
    /\ InitTui /\ InitInput /\ phase = "log"
    /\ logger = <<>>
    /\ \E h \in 0..MaxHeight : terminal = [height |-> h, log |-> <<>>]
    /\ build \in {"debug", "release"}

\* TuiLogger gets one more message
LogAppend ==
    /\ Len(logger) < MaxLog
    /\ logger' = Append(logger, Len(logger) + 1)
    /\ UNCHANGED <<account, password, mileage_percent, selected, input_mode,
                   cursorpos, status, ret, driver, terminal, build, input>>

\* the terminal gets another size
Resize ==
    /\ \E h \in 0..MaxHeight : terminal' = [terminal EXCEPT !.height = h]
    /\ UNCHANGED <<account, password, mileage_percent, selected, input_mode,
                   cursorpos, status, ret, driver, logger, build, input>>

\* Tui::main draws a frame: terminal.draw(|f| self.ui_main(f).unwrap())
Draw ==
    /\ status = "running"
    /\ \E r \in {log_panel(logger, terminal.height, build)} :
           /\ terminal' = IF r.ok THEN [terminal EXCEPT !.log = r.text] ELSE terminal
           /\ status' = IF r.ok THEN "running" ELSE "panicked"
    /\ UNCHANGED <<account, password, mileage_percent, selected, input_mode,
                   cursorpos, ret, driver, logger, build, input>>

NextLog == LogAppend \/ Resize \/ Draw

SpecLog == InitLog /\ [][NextLog]_vars

----------------------------------------------------------------------------
(* The event loops: welcome() and then main(), fed with terminal events of  *)
(* every kind.  input.stage is the function that is reading, input.kind     *)
(* the kind of the last event (or "Timeout"), input.woke the kind of the    *)
(* event welcome() returned on, input.discarded and input.presses the       *)
(* non-press and press events welcome() has read, and input.shadow the      *)
(* form fed with the presses alone.                                         *)

\* crossterm's KeyEventKind
KeyEventKinds == {"Press", "Release", "Repeat"}

\* the keys of the events fed to the loops
EventKeys == {Key("Enter"), Key("Esc"), Key("Tab"), Key("Backspace"),
              Key("Down"), CharKey("i"), CharKey("q")}

\* Event::Key(KeyEvent {code, kind, ..})
KeyEvent(kind, key) == [type |-> "Key", kind |-> kind, key |-> key]

\* an Event that is not Event::Key
OtherEvent(type) == [type |-> type, kind |-> "None", key |-> Key("Null")]

OtherEvents == {OtherEvent(type) : type \in {"Resize", "Mouse"}}

Events == {KeyEvent(kind, key) : kind \in KeyEventKinds, key \in EventKeys}
              \cup OtherEvents

\* what the loops ignore: key events that are no press, and other events
InertEvents == {ev \in Events : ev.type # "Key" \/ ev.kind # "Press"}

\* welcome() breaking out of its loop on any key event
welcome_read_any_kind(ev) ==
    IF ev.type = "Key" THEN "break" ELSE "continue"

\* welcome(), the body of the loop after event::read()
welcome_read(ev) ==
    IF ev.type = "Key"
    THEN IF ev.kind # "Press" THEN "continue" ELSE "break"
    ELSE "continue"

\* main() dispatching every key event, whatever its kind
main_read_any_kind(s, ev) ==
    IF ev.type = "Key" THEN Dispatch(s, ev.key) ELSE None(s)

\* main(), the body of the loop after event::read()
main_read(s, ev) ==
    IF ev.type = "Key"
    THEN IF ev.kind # "Press" THEN None(s) ELSE Dispatch(s, ev.key)
    ELSE None(s)

\* main(), the body of the loop after the frame: event::poll, then the read
main_poll(s, polled, ev) ==
    IF polled THEN main_read(s, ev) ELSE None(s)

EventKind(polled, ev) ==
    IF ~polled THEN "Timeout" ELSE IF ev.type = "Key" THEN ev.kind ELSE ev.type

IsPress(polled, ev) == polled /\ ev.type = "Key" /\ ev.kind = "Press"

InitEvents ==
    /\ InitTui /\ InitScreen
    /\ input = [stage |-> "welcome", kind |-> "none", woke |-> "none",
                discarded |-> 0, presses |-> 0, shadow |-> New]
    /\ phase = "events"

\* one iteration of the loop of welcome(): event::read() blocks until
\* there is an event
WelcomeRead ==
    /\ input.stage = "welcome"
    /\ \E ev \in Events :
         IF welcome_read(ev) = "break"
         THEN input' = [input EXCEPT !.stage = "main",
                                     !.kind = ev.kind,
                                     !.woke = ev.kind,
                                     !.presses = @ + (IF IsPress(TRUE, ev) THEN 1 ELSE 0),
                                     !.discarded = @ + (IF IsPress(TRUE, ev) THEN 0 ELSE 1)]
         ELSE /\ input.discarded < MaxDiscard
              /\ input' = [input EXCEPT !.kind = EventKind(TRUE, ev),
                                        !.presses = @ + (IF IsPress(TRUE, ev) THEN 1 ELSE 0),
                                        !.discarded = @ + (IF IsPress(TRUE, ev) THEN 0 ELSE 1)]
    /\ UNCHANGED <<account, password, mileage_percent, selected, input_mode,
                   cursorpos, status, ret, driver, screen>>

\* one iteration of the loop of main(): the frame, then the poll of 50 ms
\* and the event it found, if any
MainLoop ==
    /\ input.stage = "main"
    /\ status = "running"
    /\ \E d \in {log_panel(logger, terminal.height, build)} :
         IF ~d.ok
         THEN /\ status' = "panicked"
              /\ UNCHANGED <<account, password, mileage_percent, selected,
                             input_mode, cursorpos, ret, screen, input>>
         ELSE \E polled \in BOOLEAN, ev \in Events :
                /\ (polled /\ ev.type = "Key") => Typable(ev.key)
                /\ ~polled => ev = OtherEvent("Resize")
                /\ \E r \in {main_poll(Self, polled, ev)} :
                      /\ account' = r.st.account
                      /\ password' = r.st.password
                      /\ mileage_percent' = r.st.mileage_percent
                      /\ selected' = r.st.selected
                      /\ input_mode' = r.st.input_mode
                      /\ cursorpos' = r.st.cursorpos
                      /\ status' = MainStatus(Self, r)
                      /\ ret' = r.val
                /\ terminal' = [terminal EXCEPT !.log = d.text]
                /\ input' = [input EXCEPT
                       !.kind = EventKind(polled, ev),
                       !.shadow = IF IsPress(polled, ev)
                                  THEN Dispatch(@, ev.key).st ELSE @]
                /\ UNCHANGED <<logger, build>>
    /\ UNCHANGED driver

NextEvents == WelcomeRead \/ MainLoop

SpecEvents == InitEvents /\ [][NextEvents]_vars

----------------------------------------------------------------------------
(* Vocabulary of the properties. *)

TextWidgets == {"Account", "Password"}

\* the text buffer of the focused widget
FocusedText(s) == IF s.selected = "Account" THEN s.account ELSE s.password

\* the run is in its loop, about to read a key
Running == status = "running"

\* s with the char at position n (counted in chars from 1) left out
WithoutChar(b, n) == SubSeq(b, 1, n - 1) \o SubSeq(b, n + 1, Len(b))

\* every char of b is encoded in one byte
SingleByte(b) == \A n \in 1..Len(b) : b[n] \notin WideChars

----------------------------------------------------------------------------
(* C1: while the run goes on and focus is Account or Password, cursorpos   *)
(* is at most the length of the focused buffer, in Normal mode as well as  *)
(* in Editing mode.  The length is taken in bytes (String::len), the       *)
(* largest of the readings of "length", so that a violation here is one    *)
(* under the count in chars too.                                           *)
C1_CursorWithinFocusedBuffer ==
    (Running /\ selected \in TextWidgets) => cursorpos <= len(FocusedText(Self))

(* C2: mileage_percent stays within 0..100 in every reachable state, and   *)
(* no key moves it out of that range from there: on Mileage in Editing     *)
(* mode h and Left leave 0 at 0, l and Right leave 100 at 100, and the     *)
(* value never wraps around the 16-bit range.                              *)
C2_MileageInRange ==
    /\ mileage_percent \in 0..MaxMileage
    /\ Running =>
          \A key \in Keys :
             LET m == Dispatch(Self, key).st.mileage_percent
             IN  /\ m \in 0..MaxMileage
                 /\ (mileage_percent = 0 /\ key \in {CharKey("h"), Key("Left")}) => m = 0
                 /\ (mileage_percent = MaxMileage /\ key \in {CharKey("l"), Key("Right")})
                       => m = MaxMileage

\* the value has been stepped all the way down to 0 on the Mileage widget
C2_Witness ==
    Running /\ mileage_percent = 0 /\ selected = "Mileage" /\ input_mode = "Editing"

(* C3: a press makes the run return a result only if it is Enter pressed   *)
(* with focus Mileage in Editing mode, and the result is then the triple   *)
(* of the field values of that state; a run that has returned a result     *)
(* returned the triple of its fields.                                      *)
C3_ResultOnlyByConfirm ==
    /\ Running =>
          \A key \in Keys :
             LET r == Dispatch(Self, key)
             IN  (MainStatus(Self, r) = "result" \/ r.val # NoVal) =>
                    /\ key = Key("Enter")
                    /\ selected = "Mileage"
                    /\ input_mode = "Editing"
                    /\ MainStatus(Self, r) = "result"
                    /\ r.val = <<account, password, mileage_percent>>
    /\ status = "result" =>
          /\ selected = "Mileage"
          /\ ret = <<account, password, mileage_percent>>
    /\ status # "result" => ret = NoVal

\* the run has returned a result made of typed text and a lowered mileage
C3_Witness ==
    /\ status = "result"
    /\ Len(account) > 0
    /\ Len(password) > 0
    /\ mileage_percent < MaxMileage
    /\ ret = <<account, password, mileage_percent>>

(* C4: Backspace in Editing mode follows one rule on Account and on        *)
(* Password: with the cursor at 0 it changes nothing; with the cursor at   *)
(* c, 0 < c <= length, the cursor becomes c - 1 and the buffer loses       *)
(* exactly its char at index c - 1, the chars behind it kept in order.     *)
(* Stated for buffers of single-byte chars, where the offset in bytes and  *)
(* the index in chars are the same number.                                 *)
C4_BackspaceAtCursor ==
    (Running /\ input_mode = "Editing" /\ selected \in TextWidgets
       /\ SingleByte(FocusedText(Self)) /\ cursorpos <= Len(FocusedText(Self))) =>
        LET r == Dispatch(Self, Key("Backspace"))
        IN  IF cursorpos = 0
            THEN r = None(Self)
            ELSE /\ r.ret = "None"
                 /\ r.st.cursorpos = cursorpos - 1
                 /\ FocusedText(r.st) = WithoutChar(FocusedText(Self), cursorpos)

(* C5: no key press aborts the run: in every reachable state every key     *)
(* gets an outcome from its handler (continue, exit or result), every      *)
(* insert is at a valid insertion position and every removal at the index  *)
(* of a char of the buffer.                                                *)
C5_NoAbort ==
    /\ status # "panicked"
    /\ Running => \A key \in Keys : Dispatch(Self, key).ret # "panic"

(* C6: the happy path.  After i the form edits Account with the cursor at  *)
(* 0; while the account is typed the buffer is what was typed and the      *)
(* cursor is at its end; Tab moves to Password in Editing mode with the    *)
(* cursor at 0, and the same holds while the password is typed; Enter      *)
(* moves to Mileage in Editing mode; n presses of h leave mileage 100 - n; *)
(* the last Enter returns (typed account, typed password, 100 - n).        *)
C6_HappyPath ==
    /\ phase = "start" => (Running /\ Self = New)
    /\ phase = "account" =>
          /\ Running /\ selected = "Account" /\ input_mode = "Editing"
          /\ account = typed1 /\ cursorpos = Len(typed1)
          /\ password = <<>> /\ mileage_percent = MaxMileage
    /\ phase = "password" =>
          /\ Running /\ selected = "Password" /\ input_mode = "Editing"
          /\ account = typed1
          /\ password = typed2 /\ cursorpos = Len(typed2)
          /\ mileage_percent = MaxMileage
    /\ phase = "mileage" =>
          /\ Running /\ selected = "Mileage" /\ input_mode = "Editing"
          /\ account = typed1 /\ password = typed2
          /\ mileage_percent = MaxMileage - hcount
    /\ phase = "done" =>
          /\ status = "result"
          /\ ret = <<typed1, typed2, MaxMileage - hcount>>

\* the instance of the scenario: "abc", "xy" and five presses of h
C6_Witness ==
    /\ phase = "done"
    /\ hcount = 5
    /\ status = "result"
    /\ ret = << <<"a", "b", "c">>, <<"x", "y">>, 95 >>

(* C7: in Normal mode Down and j move focus one step along Account,        *)
(* Password, Mileage and stay on Mileage; Up and k move it one step back   *)
(* and stay on Account; no press of any key takes focus from Account to    *)
(* Mileage or from Mileage to Account.                                     *)
C7_FocusChain ==
    Running =>
      \A key \in Keys :
         LET to == Dispatch(Self, key).st.selected
         IN  /\ (input_mode = "Normal" /\ key \in {Key("Down"), CharKey("j")}) =>
                   to = CASE selected = "Account" -> "Password"
                          [] selected = "Password" -> "Mileage"
                          [] selected = "Mileage" -> "Mileage"
             /\ (input_mode = "Normal" /\ key \in {Key("Up"), CharKey("k")}) =>
                   to = CASE selected = "Account" -> "Account"
                          [] selected = "Password" -> "Account"
                          [] selected = "Mileage" -> "Password"
             /\ ~(selected = "Account" /\ to = "Mileage")
             /\ ~(selected = "Mileage" /\ to = "Account")

\* focus has been walked to the far end of the chain with nothing typed and
\* the form in Normal mode
C7_Witness ==
    /\ Running /\ input_mode = "Normal" /\ selected = "Mileage"
    /\ account = <<>> /\ password = <<>> /\ mileage_percent = MaxMileage

(* C8: in Editing mode the bounds are fixed points: on Account or Password *)
(* Backspace with the cursor at 0 and Right with the cursor at the length  *)
(* of the focused buffer (its number of chars) change nothing; on Mileage  *)
(* h and Left at 0 and l and Right at 100 change nothing.                  *)
C8_BoundsIdempotent ==
    (Running /\ input_mode = "Editing") =>
      /\ (selected \in TextWidgets /\ cursorpos = 0)
            => Dispatch(Self, Key("Backspace")) = None(Self)
      /\ (selected \in TextWidgets /\ cursorpos = Len(FocusedText(Self)))
            => Dispatch(Self, Key("Right")) = None(Self)
      /\ (selected = "Mileage" /\ mileage_percent = 0)
            => \A key \in {CharKey("h"), Key("Left")} : Dispatch(Self, key) = None(Self)
      /\ (selected = "Mileage" /\ mileage_percent = MaxMileage)
            => \A key \in {CharKey("l"), Key("Right")} : Dispatch(Self, key) = None(Self)

(* C9: in Normal mode a press ends the run with "no result" exactly when   *)
(* the key is Esc or q, whatever the focus and the fields, and leaves the  *)
(* fields as they were; in Editing mode Esc only switches to Normal mode   *)
(* and q is inserted into the focused text buffer, or ignored on Mileage,  *)
(* and neither ends the run.                                               *)
C9_Cancellation ==
    /\ (Running /\ input_mode = "Normal") =>
          \A key \in Keys :
             LET r == Dispatch(Self, key)
             IN  /\ MainStatus(Self, r) = "cancelled" <=> key \in {Key("Esc"), CharKey("q")}
                 /\ MainStatus(Self, r) = "cancelled" => (r.st = Self /\ r.val = NoVal)
    /\ (Running /\ input_mode = "Editing") =>
          /\ Dispatch(Self, Key("Esc")) = None([Self EXCEPT !.input_mode = "Normal"])
          /\ LET r == Dispatch(Self, CharKey("q"))
                 new == FocusedText(r.st)
             IN  /\ r.ret = "None"
                 /\ IF selected \in TextWidgets
                    THEN \E n \in 1..Len(new) :
                            new[n] = "q" /\ WithoutChar(new, n) = FocusedText(Self)
                    ELSE r.st = Self
    /\ status = "cancelled" => ret = NoVal

(* C10: the password panel shows one masking char per char of the          *)
(* password and nothing else: its text is as many "*" as the password has  *)
(* chars, so that any two passwords with the same number of chars render   *)
(* as the same text.                                                       *)
C10_PasswordMasked ==
    Running =>
      LET shown == password_panel(Self)
      IN  /\ Len(shown) = Len(password)
          /\ \A n \in 1..Len(shown) : shown[n] = "*"
          /\ \A p \in [1..Len(password) -> Chars] :
                password_panel([Self EXCEPT !.password = p]) = shown

(* C11: for a log of n lines and a log panel of height h the frame's log   *)
(* content is the last min(n, h - 2) lines of the log, in order, and       *)
(* building it never fails: no frame panics.  Stated for panels that have  *)
(* their two border rows (h >= 2), where no build profile matters.         *)
C11_LogTail ==
    (Running /\ terminal.height >= 2) =>
        LET n == Len(logger)
            rows == terminal.height - 2
            k == IF n < rows THEN n ELSE rows
            r == log_panel(logger, terminal.height, build)
        IN  r.ok /\ r.text = SubSeq(logger, n - k + 1, n)

(* C12: in Normal mode each of Enter, i and a switches to Editing mode     *)
(* and, with focus on Account or Password, puts the cursor at the length   *)
(* of that buffer (its number of chars); focus and the three fields stay   *)
(* as they were and the run goes on.                                       *)
C12_EnterEditing ==
    (Running /\ input_mode = "Normal") =>
      \A key \in {Key("Enter"), CharKey("i"), CharKey("a")} :
         LET r == Dispatch(Self, key)
         IN  /\ r.ret = "None"
             /\ r.st.input_mode = "Editing"
             /\ r.st.selected = selected
             /\ r.st.account = account
             /\ r.st.password = password
             /\ r.st.mileage_percent = mileage_percent
             /\ selected \in TextWidgets => r.st.cursorpos = Len(FocusedText(Self))

(* C13: in Editing mode with focus on Account or Password the cursor is at *)
(* most the length of the focused buffer.  The length is taken in bytes,   *)
(* the largest reading of "length".                                        *)
C13_EditingCursorWithinBuffer ==
    (Running /\ input_mode = "Editing" /\ selected \in TextWidgets)
        => cursorpos <= len(FocusedText(Self))

(* C14: in Editing mode Enter on Account moves focus to Password with the  *)
(* cursor at the length of the password, Enter on Password moves focus to  *)
(* Mileage, both staying in Editing mode with the fields unchanged; Tab on *)
(* Account or Password does exactly what Enter does; Tab on Mileage        *)
(* changes nothing and gives no result.                                    *)
C14_FieldAdvance ==
    (Running /\ input_mode = "Editing") =>
      LET e == Dispatch(Self, Key("Enter"))
          tab == Dispatch(Self, Key("Tab"))
      IN  /\ selected = "Account" =>
                e = None([Self EXCEPT !.selected = "Password",
                                      !.cursorpos = Len(password)])
          /\ selected = "Password" =>
                /\ e.ret = "None"
                /\ [e.st EXCEPT !.cursorpos = cursorpos]
                      = [Self EXCEPT !.selected = "Mileage"]
          /\ selected \in TextWidgets => tab = e
          /\ selected = "Mileage" => tab = None(Self)

(* C15: in Editing mode with focus on Account or Password, buffer b and    *)
(* cursor c <= length(b), a press of any char x gives the buffer           *)
(* b[0..c) x b[c..) and the cursor c + 1, and changes nothing else.        *)
C15_CharInserted ==
    (Running /\ input_mode = "Editing" /\ selected \in TextWidgets
       /\ cursorpos <= Len(FocusedText(Self))) =>
      \A x \in Chars :
         LET b == FocusedText(Self)
             new == SubSeq(b, 1, cursorpos) \o <<x>> \o SubSeq(b, cursorpos + 1, Len(b))
         IN  Dispatch(Self, CharKey(x)) =
               None(IF selected = "Account"
                    THEN [Self EXCEPT !.account = new, !.cursorpos = cursorpos + 1]
                    ELSE [Self EXCEPT !.password = new, !.cursorpos = cursorpos + 1])

(* C16: in Editing mode with focus on Mileage, h and Left take 1 off a     *)
(* mileage above 0, l and Right add 1 to a mileage below 100, Left does    *)
(* what h does and Right what l does in every state, and every other       *)
(* char, Backspace, Tab, Up and Down change nothing.                       *)
C16_MileageStep ==
    (Running /\ input_mode = "Editing" /\ selected = "Mileage") =>
      /\ \A key \in {CharKey("h"), Key("Left")} :
            mileage_percent > 0 =>
              Dispatch(Self, key) =
                None([Self EXCEPT !.mileage_percent = mileage_percent - 1])
      /\ \A key \in {CharKey("l"), Key("Right")} :
            mileage_percent < MaxMileage =>
              Dispatch(Self, key) =
                None([Self EXCEPT !.mileage_percent = mileage_percent + 1])
      /\ Dispatch(Self, Key("Left")) = Dispatch(Self, CharKey("h"))
      /\ Dispatch(Self, Key("Right")) = Dispatch(Self, CharKey("l"))
      /\ \A key \in {CharKey(x) : x \in Chars \ {"h", "l"}}
                    \cup {Key("Backspace"), Key("Tab"), Key("Up"), Key("Down")} :
            Dispatch(Self, key) = None(Self)

\* Mileage is being edited and has been stepped both down and back up
C16_Witness ==
    /\ Running /\ input_mode = "Editing" /\ selected = "Mileage"
    /\ mileage_percent = 50

(* C17: in Normal mode no key changes account, password or mileage; in     *)
(* Editing mode a key changes at most the field in focus, never one of     *)
(* the two others.                                                         *)
C17_FieldFrame ==
    Running =>
      \A key \in Keys :
         LET st == Dispatch(Self, key).st
         IN  /\ (input_mode = "Normal" \/ selected # "Account") => st.account = account
             /\ (input_mode = "Normal" \/ selected # "Password") => st.password = password
             /\ (input_mode = "Normal" \/ selected # "Mileage")
                   => st.mileage_percent = mileage_percent

\* Mileage is being edited while the password holds text
C17_Witness ==
    /\ Running /\ input_mode = "Editing" /\ selected = "Mileage"
    /\ password # <<>> /\ cursorpos > 0 /\ mileage_percent < MaxMileage

(* C18: Esc in Editing mode, whatever the focus, sets the mode to Normal   *)
(* and changes nothing else; the run goes on with no result and no         *)
(* cancellation.                                                           *)
C18_EscLeavesEditing ==
    (Running /\ input_mode = "Editing") =>
      LET r == Dispatch(Self, Key("Esc"))
      IN  /\ r = None([Self EXCEPT !.input_mode = "Normal"])
          /\ MainStatus(Self, r) = "running"

\* back in Normal mode with the cursor where editing left it
C18_Witness ==
    /\ Running /\ input_mode = "Normal"
    /\ selected = "Password" /\ password # <<>> /\ cursorpos > 0

(* C19: in the loop of main() a key event that is no press, an event that  *)
(* is no key event and a poll that times out each leave the whole form     *)
(* (fields, focus, mode, cursor) as it was and the run going; so the form  *)
(* after any stream of events is the form after the presses among them.    *)
C19_OnlyPressesAct ==
    (input.stage = "main" /\ Running) =>
      /\ \A ev \in InertEvents :
            LET r == main_poll(Self, TRUE, ev)
            IN  r = None(Self) /\ MainStatus(Self, r) = "running"
      /\ \A ev \in Events :
            LET r == main_poll(Self, FALSE, ev)
            IN  r = None(Self) /\ MainStatus(Self, r) = "running"
      /\ input.shadow = Self

\* an event that is no press has just been read while a field holds text
C19_Witness ==
    /\ input.stage = "main" /\ Running
    /\ input.kind \in {"Release", "Repeat", "Resize", "Mouse", "Timeout"}
    /\ input_mode = "Editing" /\ account # <<>>

(* C20: welcome() returns exactly on the first key press: while it reads   *)
(* it has seen no press, every event it has read was discarded, and once   *)
(* it has returned it has read one press, the event it returned on.        *)
C20_WelcomeFirstPress ==
    /\ input.stage = "welcome" =>
          input.presses = 0 /\ input.woke = "none" /\ Self = New
    /\ input.stage = "main" =>
          input.presses = 1 /\ input.woke = "Press"
    /\ \A ev \in Events :
          (welcome_read(ev) = "break") <=> IsPress(TRUE, ev)

\* welcome() has returned after discarding events that were no press
C20_Witness ==
    /\ input.stage = "main" /\ input.discarded = MaxDiscard
    /\ input.presses = 1

(* C21: from every reachable state whose run has not ended, presses of     *)
(* Enter alone make the run return a result within 4 presses, and the      *)
(* triple returned is that of the field values held at the first press;    *)
(* fewer presses than the focus and mode call for return nothing.          *)
C21_EnterConfirmsWithinFour ==
    Running =>
      LET r == main_Enter(Self, 4)
          need == (IF input_mode = "Normal" THEN 1 ELSE 0)
                    + (CASE selected = "Account" -> 3
                         [] selected = "Password" -> 2
                         [] selected = "Mileage" -> 1)
      IN  /\ r.status = "result"
          /\ r.presses = need
          /\ r.presses <= 4
          /\ r.val = <<account, password, mileage_percent>>
          /\ main_Enter(Self, need - 1).status = "running"

\* the worst case, Normal mode on Account, with text typed and the mileage
\* lowered before the first Enter
C21_Witness ==
    /\ Running /\ input_mode = "Normal" /\ selected = "Account"
    /\ account # <<>> /\ password # <<>> /\ mileage_percent < MaxMileage
    /\ main_Enter(Self, 4).presses = 4

====
